---- MODULE Spec2Model ----
(***************************************************************************)
(* Energy-loss model and energy-filter optimizer of parakeet               *)
(* (src/src/parakeet/inelastic.py).                                        *)
(*                                                                         *)
(* Numbers.  The program computes in float64; TLC computes in 32-bit       *)
(* integers.  Every quantity is therefore carried as an integer in a       *)
(* stated unit:                                                            *)
(*   - lengths (thickness, shape dimensions) in Angstrom;                  *)
(*   - energy losses (dE grid, filter position) in grid units, filter      *)
(*     widths in grid units (the window edges position -+ width/2 are      *)
(*     carried doubled, so odd widths give half-unit edges);               *)
(*   - values of exp(), of the zero-loss Gaussian and of the kernel in     *)
(*     fixed point, One units to 1.0.                                      *)
(* Two float64 facts are kept exactly, because claims depend on them:      *)
(*   - exp(-x) is 0.0 only for x above ExpUnderflow (about 745) and is     *)
(*     positive below it; a positive value that is below the fixed-point   *)
(*     resolution is kept as one unit instead of being rounded to zero;    *)
(*   - math.exp(x) raises OverflowError for x above ExpOverflow (about     *)
(*     709).                                                               *)
(* The constant TINY = 1e-10 of effective_thickness is far below any       *)
(* fixed-point resolution but far above float64's (1 + 1e-10 # 1): a       *)
(* thickness is carried as the unevaluated quotient n / (d + e*TINY).      *)
(***************************************************************************)
EXTENDS Integers, Sequences, FiniteSets, TLC

(***************************************************************************)
(* Bounds of the model                                                     *)
(***************************************************************************)
\* the dE grid spans at most MaxSpan grid units (dE_max - dE_min <= MaxSpan)
MaxSpan == 4

(***************************************************************************)
(* Fixed-point arithmetic                                                  *)
(***************************************************************************)
\* fixed-point unit: One stands for 1.0
One == 10 * 10
\* internal unit of the exp() series
Fine == 100 * One

Max(a, b) == IF a >= b THEN a ELSE b
Min(a, b) == IF a <= b THEN a ELSE b
Abs(a) == IF a >= 0 THEN a ELSE -a

\* floor(a / b) and ceil(a / b) for b > 0, as math.floor / math.ceil
Floor(a, b) == a \div b
Ceil(a, b) == -((-a) \div b)
\* a / b rounded to nearest, a >= 0, b > 0
RoundDiv(a, b) == (2 * a + b) \div (2 * b)

\* a / b truncated toward zero, b > 0
TruncDiv(a, b) == IF a >= 0 THEN a \div b ELSE -((-a) \div b)

RECURSIVE SqrtBetween(_, _, _)
\* the r in lo..hi with r*r <= x < (r+1)*(r+1), by bisection
SqrtBetween(lo, hi, x) ==
    IF lo >= hi THEN lo
    ELSE LET mid == (lo + hi + 1) \div 2
         IN  IF mid * mid <= x THEN SqrtBetween(mid, hi, x)
             ELSE SqrtBetween(lo, mid - 1, x)

\* integer square root, 0 <= x < 2^31
ISqrt(x) == SqrtBetween(0, 46340, x)

\* float64: exp(-x) = 0.0 iff x > 745.13...; exp(x) overflows iff x > 709.78...
ExpUnderflow == 745
ExpOverflow == 709

\* exp(-1) and exp(1) in Fine units
EInvFine == 3679
EFine == 27183

RECURSIVE ExpSeries(_, _, _, _, _)
\* sum of the series of exp(sgn * r / den), 0 <= r < den, from term k on (Fine)
ExpSeries(sgn, r, den, k, term) ==
    IF term = 0 \/ k > 12 THEN 0
    ELSE term + ExpSeries(sgn, r, den, k + 1, TruncDiv(sgn * term * r, den * k))

RECURSIVE PowFine(_, _)
\* base^q in Fine units, base in Fine units
PowFine(base, q) ==
    IF q = 0 THEN Fine ELSE RoundDiv(PowFine(base, q - 1) * base, Fine)

\* exp(-num/den) in One units, num >= 0, den > 0: zero exactly when float64
\* underflows, never below one unit otherwise.  The fraction r/den of the
\* exponent is reduced to thousandths before the series is summed.
ExpNeg(num, den) ==
    LET q == num \div den
        r == num % den
        k == den \div 1000 + 1
    IN  IF q > ExpUnderflow \/ (q = ExpUnderflow /\ r > 0) THEN 0
        ELSE IF q >= 10 THEN 1
        ELSE Max(1, RoundDiv(RoundDiv(PowFine(EInvFine, q)
                                       * ExpSeries(-1, r \div k, Max(1, den \div k), 1, Fine),
                                      Fine),
                             Fine \div One))

\* exp(num/den) in One units, 0 <= num/den < 7 (larger finite values are not
\* representable in the model and are not used)
ExpPos(num, den) ==
    LET q == num \div den
        r == num % den
    IN  RoundDiv(RoundDiv(PowFine(EFine, q) * ExpSeries(1, r, den, 1, Fine), Fine),
                 Fine \div One)

(***************************************************************************)
(* Thickness values.  A thickness is the quotient n / (d/CosOne + e*TINY)  *)
(* with TINY = 1e-10: n a length in Angstrom, d a cosine in CosOne units,  *)
(* e in {0, 1}.  With |n| < 1e6 every comparison below is exact, because   *)
(* the TINY terms stay below 1 in absolute value and the rest is integer.  *)
(***************************************************************************)
\* cos() is tabulated in CosOne units
CosOne == 100 * 100

\* a plain length of t Angstrom
Plain(t) == [n |-> t, d |-> CosOne, e |-> 0]

\* the sign of the denominator d/CosOne + e*TINY
DenSign(t) == IF t.d > 0 THEN 1 ELSE IF t.d < 0 THEN -1
              ELSE IF t.e > 0 THEN 1 ELSE -1

\* thickness > 0
IsPositive(t) == t.n * DenSign(t) > 0

\* the denominator is TINY alone: the quotient is n * 1e10
IsHuge(t) == t.d = 0 /\ t.n # 0

\* thickness == k for an integer k: n*CosOne - k*d = k*e*CosOne*TINY, an
\* integer on the left and, unless k*e = 0, a non-integer on the right
EqualsLen(t, k) == k * t.e = 0 /\ t.n * CosOne = k * t.d

\* thickness <= k for an integer k >= 0
LeqLen(t, k) ==
    IF DenSign(t) > 0 THEN t.n * CosOne - k * t.d <= 0
    ELSE IF k * t.e = 0 THEN t.n * CosOne - k * t.d >= 0
    ELSE t.n * CosOne - k * t.d >= 1

\* t1 < t2 for positive thicknesses:
\*   n1*d2 - n2*d1 < (n2*e1 - n1*e2) * CosOne * TINY
Less(t1, t2) ==
    LET lhs == t1.n * t2.d - t2.n * t1.d
        rhs == t2.n * t1.e - t1.n * t2.e
    IN  lhs < 0 \/ (lhs = 0 /\ rhs > 0)

\* the value rounded to whole Angstrom (not for huge values)
Approx(t) == IF t.n * DenSign(t) >= 0 THEN RoundDiv(Abs(t.n) * CosOne, Abs(t.d))
             ELSE -RoundDiv(Abs(t.n) * CosOne, Abs(t.d))

(***************************************************************************)
(* Geometry / thickness layer (module-level functions)                     *)
(***************************************************************************)
\* specimen dimensions (Angstrom) and tilt angles (millidegrees) tried
Lengths == {1000, 2000}
Radii == {500}
Angles == {0, 60000, 89994, 90000, 90006, 120000}

Shapes ==
    {[type |-> "cube", cube |-> [length |-> l]] : l \in Lengths}
    \cup {[type |-> "cuboid", cuboid |-> [length_z |-> l]] : l \in Lengths}
    \cup {[type |-> "cylinder", cylinder |-> [radius |-> r]] : r \in Radii}

\* cos(pi * angle / 180.0) in CosOne units.  cos(pi/2) is 6.1e-17 in float64,
\* a million times smaller than TINY: it is carried as 0.  cos(89.994 deg) is
\* 1.05e-4 and cos(90.006 deg) is -1.05e-4.
Cos(angle) ==
    CASE angle = 0 -> CosOne
      [] angle = 60000 -> CosOne \div 2
      [] angle = 89994 -> 1
      [] angle = 90000 -> 0
      [] angle = 90006 -> -1
      [] angle = 120000 -> -(CosOne \div 2)

OverCosNoTiny(D0, angle) == [n |-> D0, d |-> Cos(angle), e |-> 0]

\* D0 / (cos(pi * angle / 180.0) + TINY)
OverCos(D0, angle) == [n |-> D0, d |-> Cos(angle), e |-> 1]

effective_thickness(shape, angle) ==
    CASE shape.type = "cube" -> OverCos(shape.cube.length, angle)
      [] shape.type = "cuboid" -> OverCos(shape.cuboid.length_z, angle)
      [] shape.type = "cylinder" -> Plain(shape.cylinder.radius * 2)

\* exp(-thickness / mean_free_path): [err, v], v in One units.  A huge
\* thickness (n * 1e10) underflows to 0.0 when positive and raises when
\* negative; TINY's effect on other values is below the resolution.
ExpThickness(thickness, mean_free_path) ==
    IF IsHuge(thickness)
    THEN IF IsPositive(thickness) THEN [err |-> "", v |-> 0]
         ELSE [err |-> "OverflowError", v |-> 0]
    ELSE LET t == Approx(thickness)
         IN  IF t >= 0 THEN [err |-> "", v |-> ExpNeg(t, mean_free_path)]
             ELSE IF -t > ExpOverflow * mean_free_path
                  THEN [err |-> "OverflowError", v |-> 0]
                  ELSE [err |-> "", v |-> ExpPos(-t, mean_free_path)]

\* mean_free_path = 3150  # A for Amorphous Ice at 300 keV (line 38)
ZeroLossMeanFreePath == 3150

zero_loss_fraction(shape, angle) ==
    LET thickness == effective_thickness(shape, angle)
        electron_fraction == ExpThickness(thickness, ZeroLossMeanFreePath)
    IN  electron_fraction

\* mean_free_path = 3150 (line 49)
MpLossMeanFreePath == 3150

mp_loss_fraction(shape, angle) ==
    LET thickness == effective_thickness(shape, angle)
        electron_fraction == ExpThickness(thickness, MpLossMeanFreePath)
    IN  IF electron_fraction.err # "" THEN electron_fraction
        ELSE [err |-> "", v |-> One - electron_fraction.v]

\* the thickness handed to the evaluator without the clamp
Unclamped(thickness) == thickness

\* min(thickness, 100000)  # Maximum 10 um - to avoid issues at high tilt
ClampThickness(thickness) ==
    IF LeqLen(thickness, 100000) THEN thickness ELSE Plain(100000)

\* 2 * sqrt(2 * log(2)) in One units
FwhmToSigmaOne == 235

\* what parakeet.landau.mpl_and_fwhm(energy, thickness) may return: peak in
\* grid units (eV), fwhm in One-th of an eV
MplOutcomes == {[peak |-> 1, fwhm |-> 235], [peak |-> 0, fwhm |-> 24]}

\* most_probable_loss: the evaluator's arguments and (peak, sigma) for the
\* (peak, fwhm) it returned, sigma in One-th of an eV
most_probable_loss(mpl, energy, shape, angle) ==
    LET thickness == ClampThickness(effective_thickness(shape, angle))
    IN  [evaluator_args |-> [energy |-> energy, thickness |-> thickness],
         peak |-> mpl.peak,
         sigma |-> RoundDiv(mpl.fwhm * One, FwhmToSigmaOne)]

Models == {"None", "zero_loss", "mp_loss", "unfiltered", "cc_corrected"}

fraction_of_electrons(shape, angle, model) ==
    CASE model = "None" -> [err |-> "", v |-> One]
      [] model = "zero_loss" -> zero_loss_fraction(shape, angle)
      [] model = "mp_loss" -> mp_loss_fraction(shape, angle)
      [] model = "unfiltered" -> [err |-> "", v |-> One]
      [] model = "cc_corrected" -> [err |-> "", v |-> One]

(***************************************************************************)
(* EnergyFilterOptimizer: the instance and its dE grid                     *)
(***************************************************************************)
\* configurations tried by the constructor (grid units; energy_spread > 0)
Spreads == {1, 2}
DEMins == {-2, -1, 0, 28}
DESteps == {1, 2}

Configs ==
    {[energy_spread |-> s, dE_min |-> a, dE_max |-> a + w, dE_step |-> h] :
        s \in Spreads, a \in DEMins, w \in 0..MaxSpan, h \in DESteps}

\* len(np.arange(dE_min, dE_max, dE_step)) = ceil((dE_max - dE_min) / dE_step)
GridLen(self) ==
    IF self.dE_max <= self.dE_min THEN 0
    ELSE Ceil(self.dE_max - self.dE_min, self.dE_step)

\* array indices, 0-based as in the source
Idx(self) == 0..(GridLen(self) - 1)

\* dE = np.arange(self.dE_min, self.dE_max, self.dE_step)
Grid(self) == [i \in Idx(self) |-> self.dE_min + i * self.dE_step]

RECURSIVE SumTo(_, _)
\* a[0] + ... + a[k] (0 when k < 0): np.sum and np.cumsum
SumTo(a, k) == IF k < 0 THEN 0 ELSE a[k] + SumTo(a, k - 1)

Sum(a, n) == SumTo(a, n - 1)

\* pi and sqrt(2) in One units
PiOne == 314
Sqrt2One == 141

\* (1.0 / sqrt(pi * energy_spread**2)) * exp(-(x**2) / energy_spread**2), One units
Gaussian(x, energy_spread) ==
    LET e == ExpNeg(x * x, energy_spread * energy_spread)
        root == ISqrt(PiOne * energy_spread * energy_spread * One)
    IN  IF e = 0 THEN 0 ELSE Max(1, RoundDiv(e * One, root))

zero_loss_distribution(self) ==
    [i \in Idx(self) |-> Gaussian(Grid(self)[i], self.energy_spread)]

\* what self.landau(dE, energy, thickness) may return: any array of the grid's
\* length with entries in LandauValues, not all zero on a non-empty grid.  The
\* evaluator is outside the repository's source: a call draws one such array.
LandauValues == {0, 1}

LandauArrays(self) ==
    {L \in [Idx(self) -> LandauValues] :
        GridLen(self) = 0 \/ \E i \in Idx(self) : L[i] > 0}

\* mean_free_path = 3150 (line 169)
OptimizerMeanFreePath == 3150

\* the optimizer's copy of the constant with two digits swapped
elastic_fraction_other_path(self, energy, thickness) ==
    ExpThickness(thickness, 3510)

elastic_fraction_complement(self, energy, thickness) ==
    LET f == ExpThickness(thickness, OptimizerMeanFreePath)
    IN  [err |-> f.err, v |-> One - f.v]

\* exp(-thickness / mean_free_path)
elastic_fraction(self, energy, thickness) ==
    ExpThickness(thickness, OptimizerMeanFreePath)

\* energy_loss_distribution: the combined density is num[i] / den, where
\*   num[i] = f * P0[i] * (step * S) + (One - f) * L[i] * One
\*   den    = One * One * step * S,  S = np.sum(L)
\* i.e. f/One * P0[i]/One + (1 - f/One) * L[i] / (step * S)
energy_loss_distribution(self, L, energy, thickness) ==
    LET n == GridLen(self)
        S == Sum(L, n)
        P0 == zero_loss_distribution(self)
        f == elastic_fraction(self, energy, thickness)
    IN  [err |-> f.err,
         dE |-> Grid(self),
         num |-> [i \in Idx(self) |->
                     f.v * P0[i] * self.dE_step * S + (One - f.v) * L[i] * One],
         den |-> One * One * self.dE_step * S]

(***************************************************************************)
(* Filter window -> index bounds (compute_*_component, lines 236-241)      *)
(***************************************************************************)
\* filter_width is None (<<>>) or a width (<<w>>)
None == <<>>
Some(w) == <<w>>

\* the upper bound clamped to len(P) instead of len(P) - 1
WindowIdxUpperLen(self, position, w) ==
    [x0 |-> Max(Floor(2 * position - w - 2 * self.dE_min, 2 * self.dE_step), 0),
     x1 |-> Min(Ceil(2 * position + w - 2 * self.dE_min, 2 * self.dE_step),
                GridLen(self))]

\* x0 = max(int(floor((position - w/2 - dE_min) / dE_step)), 0)
\* x1 = min(int(ceil((position + w/2 - dE_min) / dE_step)), len(P) - 1)
WindowIdx(self, position, w) ==
    [x0 |-> Max(Floor(2 * position - w - 2 * self.dE_min, 2 * self.dE_step), 0),
     x1 |-> Min(Ceil(2 * position + w - 2 * self.dE_min, 2 * self.dE_step),
                GridLen(self) - 1)]

WindowOkOrEqual(w) == w.x1 >= w.x0

\* assert x1 > x0
WindowOk(w) == w.x1 > w.x0

RECURSIVE SumRange(_, _, _)
\* np.sum(a[lo:hi])
SumRange(a, lo, hi) == IF hi <= lo THEN 0 ELSE a[hi - 1] + SumRange(a, lo, hi - 1)

\* sqrt(np.sum(P * (dE - dE_mean)**2) / np.sum(P)) * sqrt(2) over the slice
\* [lo:hi) of weights P with np.sum(P) > 0, in One units:
\*   sum(P (dE - mean)^2) / sum(P) = (sum(P) sum(P dE^2) - sum(P dE)^2) / sum(P)^2
WeightedSpread(P, dE, lo, hi) ==
    LET m0 == SumRange(P, lo, hi)
        m1 == SumRange([i \in DOMAIN P |-> P[i] * dE[i]], lo, hi)
        m2 == SumRange([i \in DOMAIN P |-> P[i] * dE[i] * dE[i]], lo, hi)
    IN  RoundDiv(ISqrt(m0 * m2 - m1 * m1) * Sqrt2One, m0)

\* a failed call.  C[x1] raises IndexError for x1 > len(P) - 1; x0 and x1 are
\* never negative after the assert, so no index wraps.
Raise(e) == [err |-> e, fraction |-> [num |-> 0, den |-> 1],
             spread |-> [kind |-> "none", v |-> 0], mpl_calls |-> 0]

(***************************************************************************)
(* compute_elastic_component (lines 207-255)                               *)
(***************************************************************************)
compute_elastic_component(self, energy, thickness, position, filter_width) ==
    LET n == GridLen(self)
        dE == Grid(self)
        P == zero_loss_distribution(self)
        C == [i \in Idx(self) |-> self.dE_step * SumTo(P, i)]
        fraction == elastic_fraction(self, energy, thickness)
        w == IF filter_width = None THEN [x0 |-> 0, x1 |-> n]
             ELSE WindowIdx(self, position, filter_width[1])
    IN  IF fraction.err # "" THEN Raise(fraction.err)
        ELSE IF filter_width # None /\ ~WindowOk(w) THEN Raise("AssertionError")
        ELSE IF filter_width # None /\ w.x1 > n - 1 THEN Raise("IndexError")
        ELSE [err |-> "",
              fraction |-> IF filter_width # None
                           THEN [num |-> fraction.v * (C[w.x1] - C[w.x0]),
                                 den |-> One * One]
                           ELSE [num |-> fraction.v, den |-> One],
              spread |-> IF w.x1 - w.x0 > 0 /\ SumRange(P, w.x0, w.x1) > 0
                         THEN [kind |-> "value",
                               v |-> WeightedSpread(P, dE, w.x0, w.x1)]
                         ELSE [kind |-> "value", v |-> 0],
              mpl_calls |-> 0]

(***************************************************************************)
(* compute_inelastic_component (lines 257-314)                             *)
(***************************************************************************)
\* np.exp(-0.5 * (x - peak)**2 / (2 * sigma)**2), sigma = fwhm / FwhmToSigma
Envelope(x, mpl) ==
    LET sigma == RoundDiv(mpl.fwhm * One, FwhmToSigmaOne)
    IN  ExpNeg((x - mpl.peak) * (x - mpl.peak) * One * One, 8 * sigma * sigma)

\* The density P = L / (dE_step * S) and C = cumsum(L) / S, S = np.sum(L), are
\* carried by their numerators L and cumsum(L).
compute_inelastic_component(self, L, mpl, energy, thickness, position, filter_width) ==
    LET n == GridLen(self)
        dE == Grid(self)
        S == Sum(L, n)
        C == [i \in Idx(self) |-> SumTo(L, i)]
        fraction == elastic_fraction(self, energy, thickness)
        w == IF filter_width = None THEN [x0 |-> 0, x1 |-> n]
             ELSE WindowIdx(self, position, filter_width[1])
        Pw == [i \in Idx(self) |-> L[i] * Envelope(dE[i], mpl)]
    IN  IF fraction.err # "" THEN Raise(fraction.err)
        ELSE IF filter_width # None /\ ~WindowOk(w) THEN Raise("AssertionError")
        ELSE IF filter_width # None /\ w.x1 > n - 1 THEN Raise("IndexError")
        ELSE [err |-> "",
              fraction |-> IF filter_width # None
                           THEN [num |-> (One - fraction.v) * (C[w.x1] - C[w.x0]),
                                 den |-> One * S]
                           ELSE [num |-> One - fraction.v, den |-> One],
              spread |-> IF w.x1 - w.x0 > 0 /\ SumRange(L, w.x0, w.x1) > 0
                         THEN IF SumRange(Pw, w.x0, w.x1) = 0
                              THEN [kind |-> "nan", v |-> 0]
                              ELSE [kind |-> "value",
                                    v |-> WeightedSpread(Pw, dE, w.x0, w.x1)]
                         ELSE [kind |-> "value", v |-> 0],
              mpl_calls |-> IF w.x1 - w.x0 > 0 /\ SumRange(L, w.x0, w.x1) > 0
                            THEN 1 ELSE 0]

(***************************************************************************)
(* __call__: the filter-position search (lines 119-154)                    *)
(***************************************************************************)
\* unit of the powers of kx / ks, and the largest int
PowOne == 10 * 100
MaxInt == 2147483647
\* any power above this gives exp(-0.5 * power) = 0.0 in float64
PowCap == 2 * (ExpUnderflow + 1) * PowOne

\* a * b in PowOne units, saturating at PowCap (a product that does not fit
\* in 32 bits is above PowCap)
SatMul(a, b) ==
    IF a = 0 \/ b = 0 THEN 0
    ELSE IF a > MaxInt \div b THEN PowCap
    ELSE Min(PowCap, (a * b) \div PowOne)

\* (a / b) ** 80 in PowOne units, a >= 0, b > 0
Pow80(a, b) ==
    LET p1 == Min(PowCap, (a * PowOne) \div b)
        p2 == SatMul(p1, p1)
        p4 == SatMul(p2, p2)
        p8 == SatMul(p4, p4)
        p16 == SatMul(p8, p8)
        p32 == SatMul(p16, p16)
        p64 == SatMul(p32, p32)
    IN  IF a = b THEN PowOne ELSE SatMul(p64, p16)

\* np.exp(-0.5 * (kx / ks) ** 80) with ks = (filter_width / dE_step) / 2, in
\* One units: kx / ks = 2 * dE_step * kx / filter_width
KernelValue(self, kx, filter_width) ==
    ExpNeg(Pow80(2 * self.dE_step * Abs(kx), filter_width), 2 * PowOne)

\* kx = np.arange(-size // 2, size // 2 + 1); kernel[j] belongs to kx = KxMin + j
KxMin(size) == (-size) \div 2
KernelLen(size) == size \div 2 + 1 - KxMin(size)

RECURSIVE FullConv(_, _, _, _, _, _)
\* full[m] = sum over j <= jmax of a[m - j] * kernel[j] (terms outside a are 0)
FullConv(a, size, kernel, klen, m, j) ==
    IF j < 0 THEN 0
    ELSE (IF m - j >= 0 /\ m - j <= size - 1 THEN a[m - j] * kernel[j] ELSE 0)
         + FullConv(a, size, kernel, klen, m, j - 1)

\* scipy.signal.fftconvolve(a, kernel, mode="same"): the full convolution, of
\* length size + klen - 1, cut to the size of a around its centre
\* (scipy's _centered: start = (full_len - size) // 2).  The FFT's rounding
\* noise is not modelled: the sums are exact.
ConvolveSame(a, size, kernel, klen) ==
    LET start == ((size + klen - 1) - size) \div 2
    IN  [i \in 0..(size - 1) |-> FullConv(a, size, kernel, klen, i + start, klen - 1)]

RECURSIVE ArgMaxFrom(_, _, _, _)
\* np.argmax: the first index of the largest value
ArgMaxFrom(a, size, i, best) ==
    IF i > size - 1 THEN best
    ELSE ArgMaxFrom(a, size, i + 1, IF a[i] > a[best] THEN i ELSE best)

RECURSIVE ArgMaxLastFrom(_, _, _, _)
\* the last index of the largest value
ArgMaxLastFrom(a, size, i, best) ==
    IF i > size - 1 THEN best
    ELSE ArgMaxLastFrom(a, size, i + 1, IF a[i] >= a[best] THEN i ELSE best)

ArgMaxLast(a, size) == ArgMaxLastFrom(a, size, 1, 0)

ArgMax(a, size) == ArgMaxFrom(a, size, 1, 0)

CheckInputEnergyOnly(energy, thickness) == energy > 0

\* assert energy > 0; assert thickness > 0
CheckInput(energy, thickness) == energy > 0 /\ IsPositive(thickness)

\* np.sum(dE * distribution) / np.sum(distribution): the centre of mass
CentroidByMass(dE, dist, size) ==
    LET top == Sum([i \in 0..(size - 1) |-> dE[i] * dist.num[i]], size)
        bottom == Sum(dist.num, size)
    IN  IF bottom = 0
        THEN [kind |-> IF top = 0 THEN "nan" ELSE "inf", num |-> top, den |-> 0]
        ELSE [kind |-> "value", num |-> top, den |-> bottom]

\* np.sum(dE * distribution) / np.sum(dE): the density is num / den, so the
\* quotient is sum(dE * num) / (den * sum(dE)); numpy gives nan for 0 / 0 and
\* +-inf for x / 0
Centroid(dE, dist, size) ==
    LET top == Sum([i \in 0..(size - 1) |-> dE[i] * dist.num[i]], size)
        bottom == dist.den * Sum(dE, size)
    IN  IF bottom = 0
        THEN [kind |-> IF top = 0 THEN "nan" ELSE "inf", num |-> top, den |-> 0]
        ELSE IF bottom > 0 THEN [kind |-> "value", num |-> top, den |-> bottom]
        ELSE [kind |-> "value", num |-> -top, den |-> -bottom]

\* a failed search: steps lists what ran before the failure
RaiseCall(e, steps) ==
    [err |-> e, position |-> [kind |-> "none", num |-> 0, den |-> 1], steps |-> steps]

\* filter_width, when given to the search, is positive (a zero width makes
\* the kernel nan).  kernel /= np.sum(kernel) divides every output of the
\* convolution by the same positive number (the kernel is 1 at kx = 0), so
\* the convolution is carried by its numerator over the unscaled kernel.
__call__(self, L, energy, thickness, filter_width) ==
    IF ~CheckInput(energy, thickness) THEN RaiseCall("AssertionError", <<>>)
    ELSE
      LET dist == energy_loss_distribution(self, L, energy, thickness)
          dE == dist.dE
          size == GridLen(self)
          klen == KernelLen(size)
          kernel == [j \in 0..(klen - 1) |->
                        KernelValue(self, KxMin(size) + j, filter_width[1])]
          num == ConvolveSame(dist.num, size, kernel, klen)
          steps == <<"energy_loss_distribution", "landau">>
      IN  IF filter_width = None
          THEN [err |-> "", position |-> Centroid(dE, dist, size), steps |-> steps]
          ELSE IF size = 0 THEN RaiseCall("ValueError", steps)
          ELSE [err |-> "",
                position |-> [kind |-> "value", num |-> dE[ArgMax(num, size)], den |-> 1],
                steps |-> steps]

(***************************************************************************)
(* State: the instance, the call in progress and what it returned          *)
(***************************************************************************)
VARIABLES optimizer, call, ret

vars == <<optimizer, call, ret>>

\* EnergyFilterOptimizer.__init__ stores the configuration
Init ==
    /\ optimizer \in Configs
    /\ call = [op |-> "none"]
    /\ ret = [status |-> "none"]

\* a call that raised returns nothing
Failed(e) == [status |-> e]

Idle == call.op = "none"

\* beam energies (eV) tried by the search (it checks them) and by the
\* distribution builder
SearchEnergies == {-300000, 0, 300000}
Energies == {300000}
\* thicknesses tried by the search (it checks them)
SearchThicknesses ==
    {Plain(-1), Plain(0), Plain(1000), Plain(20000),
     OverCos(1000, 0), OverCos(1000, 90000)}
\* thicknesses given to the unchecked methods: positive, as their callers
\* must ensure
ComponentThicknesses ==
    {Plain(t) : t \in {100, 1000, 5000, 20000}}
    \cup {t \in {effective_thickness(s, a) : s \in Shapes, a \in Angles} : IsPositive(t)}
InelasticThicknesses == {Plain(1000), Plain(20000), OverCos(1000, 90000)}
\* filter windows tried
SearchWidths == {None, Some(1), Some(2), Some(3), Some(4)}
FilterWidths == {None, Some(0), Some(1), Some(2), Some(3), Some(12)}
Positions(self) == (self.dE_min - 2)..(self.dE_max + 2)

CallEffectiveThickness ==
    /\ Idle
    /\ \E shape \in Shapes, angle \in Angles :
        /\ call' = [op |-> "effective_thickness", shape |-> shape, angle |-> angle]
        /\ ret' = [status |-> "ok", thickness |-> effective_thickness(shape, angle)]
    /\ UNCHANGED optimizer

CallFractionOfElectrons ==
    /\ Idle
    /\ \E shape \in Shapes, angle \in Angles, model \in Models :
        LET r == fraction_of_electrons(shape, angle, model)
        IN  /\ call' = [op |-> "fraction_of_electrons", shape |-> shape,
                        angle |-> angle, model |-> model]
            /\ ret' = IF r.err # "" THEN Failed(r.err)
                      ELSE [status |-> "ok", fraction |-> r.v]
    /\ UNCHANGED optimizer

CallMostProbableLoss ==
    /\ Idle
    /\ \E energy \in {300}, shape \in Shapes, angle \in Angles, mpl \in MplOutcomes :
        LET r == most_probable_loss(mpl, energy, shape, angle)
        IN  /\ call' = [op |-> "most_probable_loss", energy |-> energy,
                        shape |-> shape, angle |-> angle, mpl |-> mpl]
            /\ ret' = [status |-> "ok", peak |-> r.peak, sigma |-> r.sigma,
                       evaluator_args |-> r.evaluator_args]
    /\ UNCHANGED optimizer

CallEnergyLossDistribution ==
    /\ Idle
    /\ \E energy \in Energies, thickness \in ComponentThicknesses,
          L \in LandauArrays(optimizer) :
        LET r == energy_loss_distribution(optimizer, L, energy, thickness)
        IN  /\ call' = [op |-> "energy_loss_distribution", energy |-> energy,
                        thickness |-> thickness, L |-> L]
            /\ ret' = IF r.err # "" THEN Failed(r.err)
                      ELSE [status |-> "ok", dE |-> r.dE, num |-> r.num, den |-> r.den]
    /\ UNCHANGED optimizer

\* the evaluator is consulted only when the input check passes
CallSearch ==
    /\ Idle
    /\ \E energy \in SearchEnergies, thickness \in SearchThicknesses,
          filter_width \in SearchWidths :
        \E L \in IF CheckInput(energy, thickness) THEN LandauArrays(optimizer)
                 ELSE {<<>>} :
            LET r == __call__(optimizer, L, energy, thickness, filter_width)
            IN  /\ call' = [op |-> "__call__", energy |-> energy,
                            thickness |-> thickness, filter_width |-> filter_width,
                            L |-> L]
                /\ ret' = IF r.err # "" THEN [status |-> r.err, steps |-> r.steps]
                          ELSE [status |-> "ok", position |-> r.position,
                                steps |-> r.steps]
    /\ UNCHANGED optimizer

CallElasticComponent ==
    /\ Idle
    /\ \E energy \in {300000}, thickness \in ComponentThicknesses,
          filter_width \in FilterWidths :
        \E position \in IF filter_width = None THEN {0} ELSE Positions(optimizer) :
            LET r == compute_elastic_component(optimizer, energy, thickness,
                                               position, filter_width)
            IN  /\ call' = [op |-> "compute_elastic_component", energy |-> energy,
                            thickness |-> thickness, position |-> position,
                            filter_width |-> filter_width]
                /\ ret' = IF r.err # "" THEN Failed(r.err)
                          ELSE [status |-> "ok", fraction |-> r.fraction,
                                spread |-> r.spread]
    /\ UNCHANGED optimizer

CallInelasticComponent ==
    /\ Idle
    /\ \E energy \in {300000}, thickness \in InelasticThicknesses,
          filter_width \in FilterWidths, L \in LandauArrays(optimizer),
          mpl \in MplOutcomes :
        \E position \in IF filter_width = None THEN {0} ELSE Positions(optimizer) :
            LET r == compute_inelastic_component(optimizer, L, mpl, energy, thickness,
                                                 position, filter_width)
            IN  /\ call' = [op |-> "compute_inelastic_component", energy |-> energy,
                            thickness |-> thickness, position |-> position,
                            filter_width |-> filter_width, L |-> L, mpl |-> mpl]
                /\ ret' = IF r.err # "" THEN Failed(r.err)
                          ELSE [status |-> "ok", fraction |-> r.fraction,
                                spread |-> r.spread, mpl_calls |-> r.mpl_calls]
    /\ UNCHANGED optimizer

\* the caller takes the result
Return ==
    /\ ~Idle
    /\ call' = [op |-> "none"]
    /\ ret' = [status |-> "none"]
    /\ UNCHANGED optimizer

Next ==
    \/ CallEffectiveThickness
    \/ CallFractionOfElectrons
    \/ CallMostProbableLoss
    \/ CallEnergyLossDistribution
    \/ CallSearch
    \/ CallElasticComponent
    \/ CallInelasticComponent
    \/ Return

Spec == Init /\ [][Next]_vars

(***************************************************************************)
(* Claims                                                                  *)
(***************************************************************************)
IsComponentCall ==
    call.op \in {"compute_elastic_component", "compute_inelastic_component"}

\* C1: the filter-position search called with energy <= 0 or thickness <= 0
\* fails with the argument check's AssertionError, and nothing was computed
\* on that path: the energy-loss distribution was not built and the Landau
\* evaluator was not called.
C1_InvalidInputFailsFast ==
    (call.op = "__call__" /\ (call.energy <= 0 \/ ~IsPositive(call.thickness)))
        => (ret.status = "AssertionError" /\ ret.steps = <<>>)

C1_Witness ==
    /\ call.op = "__call__"
    /\ GridLen(optimizer) >= 2
    /\ call.energy > 0
    /\ ~IsPositive(call.thickness)
    /\ ret.status = "AssertionError"

\* the doubled edges 2 * (position -+ filter_width / 2) of the call's window
Edge0x2 == 2 * call.position - call.filter_width[1]
Edge1x2 == 2 * call.position + call.filter_width[1]

\* the clamped index bounds as the claim states them
ClampedLower ==
    Max(Floor(Edge0x2 - 2 * optimizer.dE_min, 2 * optimizer.dE_step), 0)
ClampedUpper ==
    Min(Ceil(Edge1x2 - 2 * optimizer.dE_min, 2 * optimizer.dE_step),
        GridLen(optimizer) - 1)

\* the window lies entirely outside [dE_min, dE_max)
WindowBelowGrid == Edge1x2 < 2 * optimizer.dE_min
WindowAboveGrid == Edge0x2 >= 2 * optimizer.dE_max

\* C2: a component call with a filter window whose clamped upper index does
\* not exceed the clamped lower index fails with the degenerate-window
\* AssertionError and returns no fraction; every window entirely below dE_min
\* or entirely above dE_max fails this way.
C2_DegenerateWindowFails ==
    (IsComponentCall /\ call.filter_width # None)
        => /\ (ClampedUpper <= ClampedLower \/ WindowBelowGrid \/ WindowAboveGrid)
                => (ret.status = "AssertionError" /\ "fraction" \notin DOMAIN ret)

C2_Witness ==
    /\ call.op = "compute_inelastic_component"
    /\ call.filter_width # None
    /\ GridLen(optimizer) >= 2
    /\ WindowAboveGrid
    /\ ret.status = "AssertionError"

\* the clamped band is the whole grid: x0 = 0 and x1 = len(P) - 1
FullSpan == ClampedLower = 0 /\ ClampedUpper = GridLen(optimizer) - 1

\* the call in progress repeated with filter_width = None
Unwindowed ==
    IF call.op = "compute_elastic_component"
    THEN compute_elastic_component(optimizer, call.energy, call.thickness,
                                   call.position, None)
    ELSE compute_inelastic_component(optimizer, call.L, call.mpl, call.energy,
                                     call.thickness, call.position, None)

\* C3: a component call whose clamped band spans the full grid returns the
\* fraction that the same call returns with no filter window (here: to within
\* 1/One, the resolution of the fractions).
C3_FullSpanKeepsFraction ==
    (IsComponentCall /\ call.filter_width # None /\ ret.status = "ok" /\ FullSpan)
        => LET a == ret.fraction
               b == Unwindowed.fraction
           IN  One * Abs(a.num * b.den - b.num * a.den) <= a.den * b.den

\* C4: the array energy_loss_distribution returns on a non-empty grid has
\* total mass sum(density) * dE_step = 1 (here: to within 1/One)
C4_DistributionHasUnitMass ==
    (call.op = "energy_loss_distribution" /\ ret.status = "ok"
     /\ GridLen(optimizer) >= 1)
        => One * Abs(optimizer.dE_step * Sum(ret.num, GridLen(optimizer)) - ret.den)
               <= ret.den

\* C5: for every shape and angle zero_loss_fraction and mp_loss_fraction both
\* return, and their values sum to 1.0
C5_FractionsSumToOne ==
    (call.op = "fraction_of_electrons" /\ call.model = "zero_loss")
        => LET m == mp_loss_fraction(call.shape, call.angle)
           IN  /\ ret.status = "ok"
               /\ m.err = ""
               /\ ret.fraction + m.v = One

\* the optimizer's split at the thickness of the call's shape and angle, with
\* no filter window; the inelastic fraction is taken for every array and
\* every peak the evaluator may return
SplitElastic ==
    compute_elastic_component(optimizer, 300000,
                              effective_thickness(call.shape, call.angle), 0, None)
SplitInelastic ==
    {compute_inelastic_component(optimizer, L, mpl, 300000,
                                 effective_thickness(call.shape, call.angle), 0, None) :
        L \in LandauArrays(optimizer), mpl \in MplOutcomes}

\* the selector's outcome and a component's outcome are the same: both raise
\* the same error, or both return and the fractions are equal
Agrees(r) ==
    IF ret.status = "ok"
    THEN r.err = "" /\ ret.fraction * r.fraction.den = r.fraction.num * One
    ELSE r.err = ret.status

PlainThicknesses == {Plain(t) : t \in {100, 1000, 5000, 20000}}

\* the elastic call in progress repeated at thickness t
ElasticAt(t) ==
    compute_elastic_component(optimizer, call.energy, t, call.position,
                              call.filter_width)

\* a < b for fractions with positive denominators
FracLess(a, b) == a.num * b.den < b.num * a.den

\* the zero-loss mass C[x1] - C[x0] that the call's window keeps
InBandZeroLoss ==
    optimizer.dE_step
        * SumRange(zero_loss_distribution(optimizer), ClampedLower + 1, ClampedUpper + 1)

\* C7 as stated: with energy, position and width fixed, the elastic fraction at
\* t1 is strictly greater than at any t2 > t1 (t1, t2 in PlainThicknesses)
C7_StrictlyDecreasing ==
    (call.op = "compute_elastic_component" /\ ret.status = "ok"
     /\ call.thickness \in PlainThicknesses)
        => \A t2 \in PlainThicknesses :
              Less(call.thickness, t2) => FracLess(ElasticAt(t2).fraction, ret.fraction)

\* C7: with energy, position and width fixed, the elastic fraction never grows
\* with thickness: at t1 < t2 it is at least the fraction at t2.  It is
\* strictly greater when no window is given (t1, t2 in PlainThicknesses), and
\* it is 0 at every thickness when the window keeps no zero-loss mass.
C7_NeverIncreasing ==
    (call.op = "compute_elastic_component" /\ ret.status = "ok")
        => \A t2 \in ComponentThicknesses :
              Less(call.thickness, t2)
                  => LET b == ElasticAt(t2).fraction
                     IN  /\ ~FracLess(ret.fraction, b)
                         /\ (call.filter_width = None
                             /\ call.thickness \in PlainThicknesses
                             /\ t2 \in PlainThicknesses)
                                => FracLess(b, ret.fraction)
                         /\ (call.filter_width # None /\ InBandZeroLoss = 0)
                                => (ret.fraction.num = 0 /\ b.num = 0)

C7_Witness ==
    /\ call.op = "compute_elastic_component"
    /\ call.filter_width # None
    /\ call.thickness = Plain(100)
    /\ ret.status = "ok"
    /\ InBandZeroLoss = 0
    /\ ret.fraction.num = 0

\* the density the search in progress works on
SearchDensity ==
    energy_loss_distribution(optimizer, call.L, call.energy, call.thickness)

\* np.sum(dE * density) and np.sum(dE), over the density's denominator
WeightedGridSum ==
    SumRange([i \in Idx(optimizer) |-> Grid(optimizer)[i] * SearchDensity.num[i]],
             0, GridLen(optimizer))
GridSum == SearchDensity.den * SumRange(Grid(optimizer), 0, GridLen(optimizer))

\* the search returned exactly np.sum(dE * density) / np.sum(dE), as numpy
\* evaluates it: nan for 0 / 0, +-inf for x / 0
ReturnsGridSumRatio ==
    IF GridSum = 0
    THEN ret.position.kind = (IF WeightedGridSum = 0 THEN "nan" ELSE "inf")
    ELSE /\ ret.position.kind = "value"
         /\ \/ (ret.position.num = WeightedGridSum /\ ret.position.den = GridSum)
            \/ (ret.position.num = -WeightedGridSum /\ ret.position.den = -GridSum)

\* the grid is symmetric about 0 and so is the density on it
SymmetricCase ==
    /\ GridLen(optimizer) >= 1
    /\ \A i \in Idx(optimizer) :
          /\ Grid(optimizer)[i] = -Grid(optimizer)[GridLen(optimizer) - 1 - i]
          /\ SearchDensity.num[i] = SearchDensity.num[GridLen(optimizer) - 1 - i]

IsUnfilteredSearch ==
    call.op = "__call__" /\ ret.status = "ok" /\ call.filter_width = None

SameConvolution ==
    LET n == GridLen(optimizer)
        klen == KernelLen(n)
        c == (klen - 1) \div 2
    IN  [i \in Idx(optimizer) |->
            SumRange([j \in 0..(klen - 1) |->
                         IF i + c - j >= 0 /\ i + c - j <= n - 1
                         THEN SearchDensity.num[i + c - j]
                                * KernelValue(optimizer, KxMin(n) + j, call.filter_width[1])
                         ELSE 0],
                     0, klen)]

IsFilteredSearch ==
    call.op = "__call__" /\ ret.status = "ok" /\ call.filter_width # None

\* C9: a search with a filter width returns an element of the dE grid: the
\* grid value at the first index where the same-length convolution of the
\* density with the kernel is largest.
C9_ReturnsGridValueAtArgmax ==
    IsFilteredSearch
        => /\ ret.position.kind = "value"
           /\ ret.position.den = 1
           /\ \E i \in Idx(optimizer) :
                 /\ Grid(optimizer)[i] = ret.position.num
                 /\ \A j \in Idx(optimizer) :
                       /\ SameConvolution[j] <= SameConvolution[i]
                       /\ j < i => SameConvolution[j] < SameConvolution[i]

C9_Witness ==
    /\ IsFilteredSearch
    /\ GridLen(optimizer) >= 3
    /\ ret.position.num > optimizer.dE_min
    /\ \E j \in Idx(optimizer) :
          /\ Grid(optimizer)[j] > ret.position.num
          /\ SameConvolution[j] > 0

\* the nominal thickness of a shape: length, length_z or 2 * radius
Nominal(shape) ==
    CASE shape.type = "cube" -> shape.cube.length
      [] shape.type = "cuboid" -> shape.cuboid.length_z
      [] shape.type = "cylinder" -> 2 * shape.cylinder.radius

\* C10 as stated: at angle = 0 the effective thickness equals the nominal
\* thickness of every shape, and a cylinder's is 2 * radius at every angle
C10_EqualsNominalAtZero ==
    (call.op = "effective_thickness")
        => /\ call.angle = 0 => EqualsLen(ret.thickness, Nominal(call.shape))
           /\ call.shape.type = "cylinder"
                 => EqualsLen(ret.thickness, 2 * call.shape.cylinder.radius)

\* C10: at angle = 0 the effective thickness of a cube or cuboid is
\* nominal / (1 + TINY): below the nominal thickness and not equal to it, the
\* nominal thickness when rounded to a whole Angstrom; a cylinder's is exactly
\* 2 * radius at every angle.
C10_NominalUpToTiny ==
    (call.op = "effective_thickness")
        => /\ (call.angle = 0 /\ call.shape.type \in {"cube", "cuboid"})
                 => /\ ret.thickness = [n |-> Nominal(call.shape), d |-> CosOne, e |-> 1]
                    /\ ~EqualsLen(ret.thickness, Nominal(call.shape))
                    /\ Less(ret.thickness, Plain(Nominal(call.shape)))
                    /\ Approx(ret.thickness) = Nominal(call.shape)
           /\ call.shape.type = "cylinder"
                 => EqualsLen(ret.thickness, 2 * call.shape.cylinder.radius)

C10_Witness ==
    /\ call.op = "effective_thickness"
    /\ call.angle = 0
    /\ call.shape.type = "cuboid"
    /\ ret.status = "ok"
    /\ ~EqualsLen(ret.thickness, call.shape.cuboid.length_z)

(***************************************************************************)
(* Concurrent calls on one instance.  Under SpecConcurrent `call` and      *)
(* `ret` hold one entry per thread; a method reads the instance's fields   *)
(* at different moments of its run, and other threads run in between.      *)
(***************************************************************************)
Threads == {1, 2}

\* the methods of the instance
Methods ==
    {"__call__", "energy_loss_distribution", "elastic_fraction",
     "compute_elastic_component", "compute_inelastic_component"}

\* instances on which concurrent calls are made
ConcurrentConfigs ==
    {c \in Configs : /\ c.energy_spread = 1
                     /\ c.dE_min = -1
                     /\ c.dE_step = 1
                     /\ c.dE_max - c.dE_min >= MaxSpan - 1}

\* the evaluator is a function of its arguments: the array it returns for a
\* call's arguments is fixed when the call is made (one of two arrays here)
ConcurrentArrays(self) ==
    {[i \in Idx(self) |-> 1], [i \in Idx(self) |-> IF i = 0 THEN 0 ELSE 1]}

\* no method body assigns to self.energy_spread, self.dE_min, self.dE_max or
\* self.dE_step: the instance after a step of a method is the instance
\* before it
InstanceAfterCachingSpread(self, op) ==
    IF op = "energy_loss_distribution"
    THEN [self EXCEPT !.energy_spread = 3 - @]
    ELSE self

InstanceAfter(self, op) == self

\* what a method returns on the instance `self` for the arguments in c
MethodResult(self, c) ==
    CASE c.op = "__call__" ->
            LET r == __call__(self, c.L, c.energy, c.thickness, c.filter_width)
            IN  IF r.err # "" THEN Failed(r.err)
                ELSE [status |-> "ok", position |-> r.position]
      [] c.op = "energy_loss_distribution" ->
            LET r == energy_loss_distribution(self, c.L, c.energy, c.thickness)
            IN  IF r.err # "" THEN Failed(r.err)
                ELSE [status |-> "ok", dE |-> r.dE, num |-> r.num, den |-> r.den]
      [] c.op = "elastic_fraction" ->
            LET r == elastic_fraction(self, c.energy, c.thickness)
            IN  IF r.err # "" THEN Failed(r.err)
                ELSE [status |-> "ok", fraction |-> r.v]
      [] c.op = "compute_elastic_component" ->
            LET r == compute_elastic_component(self, c.energy, c.thickness,
                                               c.position, c.filter_width)
            IN  IF r.err # "" THEN Failed(r.err)
                ELSE [status |-> "ok", fraction |-> r.fraction, spread |-> r.spread]
      [] c.op = "compute_inelastic_component" ->
            LET r == compute_inelastic_component(self, c.L, c.mpl, c.energy,
                                                 c.thickness, c.position,
                                                 c.filter_width)
            IN  IF r.err # "" THEN Failed(r.err)
                ELSE [status |-> "ok", fraction |-> r.fraction, spread |-> r.spread]

InitConcurrent ==
    /\ optimizer \in ConcurrentConfigs
    /\ call = [t \in Threads |-> [op |-> "none"]]
    /\ ret = [t \in Threads |-> [status |-> "none"]]

\* thread t enters a method; nothing of the instance has been read yet
Enter(t) ==
    /\ call[t].op = "none"
    /\ \E op \in Methods, filter_width \in {None, Some(2)},
          L \in ConcurrentArrays(optimizer) :
        /\ (op \in {"energy_loss_distribution", "elastic_fraction"})
              => filter_width = None
        /\ (op \in {"elastic_fraction", "compute_elastic_component"})
              => L = [i \in Idx(optimizer) |-> 1]
        /\ call' = [call EXCEPT ![t] =
                      [op |-> op, pc |-> "entered", energy |-> 300000,
                       thickness |-> Plain(1000), position |-> 0,
                       filter_width |-> filter_width, L |-> L,
                       mpl |-> [peak |-> 1, fwhm |-> 235], self |-> optimizer]]
    /\ optimizer' = optimizer
    /\ UNCHANGED ret

\* np.arange(self.dE_min, self.dE_max, self.dE_step) (lines 186, 223, 273)
ReadGrid(t) ==
    /\ call[t].op \in Methods \ {"elastic_fraction"}
    /\ call[t].pc = "entered"
    /\ call' = [call EXCEPT ![t].pc = "grid",
                            ![t].self.dE_min = optimizer.dE_min,
                            ![t].self.dE_max = optimizer.dE_max,
                            ![t].self.dE_step = optimizer.dE_step]
    /\ optimizer' = InstanceAfter(optimizer, call[t].op)
    /\ UNCHANGED ret

\* self.energy_spread is read after the grid is built (lines 193, 226)
ReadSpread(t) ==
    /\ call[t].op \in Methods \ {"elastic_fraction", "compute_inelastic_component"}
    /\ call[t].pc = "grid"
    /\ call' = [call EXCEPT ![t].pc = "spread",
                            ![t].self.energy_spread = optimizer.energy_spread]
    /\ optimizer' = InstanceAfter(optimizer, call[t].op)
    /\ UNCHANGED ret

\* the method computes from what it has read and returns or raises
Finish(t) ==
    /\ call[t].op \in Methods
    /\ ret[t].status = "none"
    /\ \/ call[t].op = "elastic_fraction" /\ call[t].pc = "entered"
       \/ call[t].op = "compute_inelastic_component" /\ call[t].pc = "grid"
       \/ call[t].pc = "spread"
    /\ ret' = [ret EXCEPT ![t] = MethodResult(call[t].self, call[t])]
    /\ call' = [call EXCEPT ![t].pc = "done"]
    /\ optimizer' = InstanceAfter(optimizer, call[t].op)

\* the caller of thread t takes the result
TakeResult(t) ==
    /\ call[t].op \in Methods
    /\ call[t].pc = "done"
    /\ call' = [call EXCEPT ![t] = [op |-> "none"]]
    /\ ret' = [ret EXCEPT ![t] = [status |-> "none"]]
    /\ optimizer' = optimizer

NextConcurrent ==
    \E t \in Threads :
        \/ Enter(t)
        \/ ReadGrid(t)
        \/ ReadSpread(t)
        \/ Finish(t)
        \/ TakeResult(t)

SpecConcurrent == InitConcurrent /\ [][NextConcurrent]_vars

\* C11: no step of a method changes energy_spread, dE_min, dE_max or dE_step,
\* and under every interleaving of the threads a call that finishes returns
\* what the same call returns when run alone on the instance.
C11_FieldsFixedCallsIndependent ==
    [][/\ optimizer' = optimizer
       /\ \A t \in Threads :
             (ret[t].status = "none" /\ ret'[t].status # "none")
                 => ret'[t] = MethodResult(optimizer, call[t])]_vars

\* one thread has returned from a search while the other, which entered
\* before that, is still between its reads
C11_Witness ==
    /\ call[1].op = "__call__"
    /\ call[1].pc = "done"
    /\ ret[1].status = "ok"
    /\ call[2].op = "energy_loss_distribution"
    /\ call[2].pc = "grid"

\* C12: a component call that returns has 0 <= fraction <= 1 and a spread
\* that is a number >= 0
C12_FractionAndSpreadInRange ==
    (IsComponentCall /\ ret.status = "ok")
        => /\ ret.fraction.num >= 0
           /\ ret.fraction.num <= ret.fraction.den
           /\ ret.spread.kind = "value"
           /\ ret.spread.v >= 0

\* the slice [lo:hi) of the density that the call's spread is computed over
SliceLo == IF call.filter_width = None THEN 0 ELSE ClampedLower
SliceHi == IF call.filter_width = None THEN GridLen(optimizer) ELSE ClampedUpper

\* the mass of that slice, up to a positive factor
SliceMass ==
    IF call.op = "compute_elastic_component"
    THEN SumRange(zero_loss_distribution(optimizer), SliceLo, SliceHi)
    ELSE SumRange(call.L, SliceLo, SliceHi)

\* C13: a component call whose window is not degenerate does not fail; it
\* returns spread = 0 when the slice is empty or has zero mass, and otherwise
\* a spread that is a number, every division on the way being by a positive
\* mass (none is 0 / 0)
C13_ZeroMassGivesZeroSpread ==
    (IsComponentCall /\ ret.status # "AssertionError")
        => /\ ret.status = "ok"
           /\ (SliceHi <= SliceLo \/ SliceMass = 0)
                 => (ret.spread.kind = "value" /\ ret.spread.v = 0)
           /\ ret.spread.kind = "value"

\* C14: the thickness most_probable_loss hands to the evaluator is never above
\* 100000; it is the effective thickness when that is at most 100000, and
\* 100000 otherwise (tilts at and near 90 degrees)
C14_EvaluatorThicknessClamped ==
    (call.op = "most_probable_loss")
        => LET t == effective_thickness(call.shape, call.angle)
               given == ret.evaluator_args.thickness
           IN  /\ LeqLen(given, 100000)
               /\ LeqLen(t, 100000) => given = t
               /\ ~LeqLen(t, 100000) => EqualsLen(given, 100000)

C14_Witness ==
    /\ call.op = "most_probable_loss"
    /\ call.shape.type = "cube"
    /\ call.angle = 89994
    /\ ~LeqLen(effective_thickness(call.shape, call.angle), 100000)
    /\ EqualsLen(ret.evaluator_args.thickness, 100000)

\* the index bounds the call in progress computed from its window
CallWindow == WindowIdx(optimizer, call.position, call.filter_width[1])

\* C15: in a component call with a window that passes the degenerate-window
\* check the index bounds satisfy 0 <= x0 < x1 <= len(P) - 1: C[x0] and C[x1]
\* are read in range, the call does not fail on them, and the slice [x0:x1)
\* is not empty
C15_WindowIndicesInRange ==
    (IsComponentCall /\ call.filter_width # None /\ ret.status # "AssertionError")
        => /\ 0 <= CallWindow.x0
           /\ CallWindow.x0 < CallWindow.x1
           /\ CallWindow.x1 <= GridLen(optimizer) - 1
           /\ ret.status = "ok"

\* a window clipped at both ends of the grid, and one inside the grid
C15_Witness ==
    /\ call.op = "compute_inelastic_component"
    /\ call.filter_width # None
    /\ ret.status = "ok"
    /\ GridLen(optimizer) >= 4
    /\ \/ (Edge0x2 < 2 * optimizer.dE_min /\ Edge1x2 > 2 * optimizer.dE_max)
       \/ (CallWindow.x0 >= 1 /\ CallWindow.x1 <= GridLen(optimizer) - 2)

\* the base fraction of the call in progress, in the units of the returned
\* fraction's numerator per unit of SliceMass
BaseFraction ==
    LET f == elastic_fraction(optimizer, call.energy, call.thickness).v
    IN  IF call.op = "compute_elastic_component" THEN f * optimizer.dE_step
        ELSE One - f

\* C16: in a component call with a window the in-band mass C[x1] - C[x0] that
\* multiplies the base fraction is dE_step times the sum of the density over
\* the slice [x0:x1) used for the spread
C16_FractionOverSpreadSlice ==
    (IsComponentCall /\ call.filter_width # None /\ ret.status = "ok")
        => ret.fraction.num = BaseFraction * SliceMass

\* the two components of the search in progress at filter position q, with
\* the search's filter width
ElasticAtPosition(q) ==
    compute_elastic_component(optimizer, call.energy, call.thickness, q,
                              call.filter_width)
InelasticAtPosition(q) ==
    compute_inelastic_component(optimizer, call.L, [peak |-> 1, fwhm |-> 235],
                                call.energy, call.thickness, q, call.filter_width)

\* the window at position q is not degenerate
Retains(q) == ElasticAtPosition(q).err = "" /\ InelasticAtPosition(q).err = ""

\* the total retained fraction at q, over the denominator One * One * sum(L)
TotalRetained(q) ==
    ElasticAtPosition(q).fraction.num * Sum(call.L, GridLen(optimizer))
        + InelasticAtPosition(q).fraction.num * One

\* the convolution's largest value is attained at one index only, so that
\* rounding noise in the FFT cannot change the argmax
ConvolutionMaxIsUnique ==
    \E i \in Idx(optimizer) :
        \A j \in Idx(optimizer) \ {i} : SameConvolution[j] < SameConvolution[i]

\* C17: the position a search with a filter width returns retains at least as
\* large a total fraction (elastic plus inelastic component at that position
\* and width) as any other grid position with a non-degenerate window (here:
\* for searches whose convolution has a unique maximum)
C17_SearchMaximizesRetained ==
    (IsFilteredSearch /\ ConvolutionMaxIsUnique /\ Retains(ret.position.num))
        => \A i \in Idx(optimizer) :
              Retains(Grid(optimizer)[i])
                  => TotalRetained(ret.position.num) >= TotalRetained(Grid(optimizer)[i])

====
